---- MODULE Spec2Model ----
(***************************************************************************)
(* Model of ImageRebuilder._build_images and ImageRebuilder._prebuild_check *)
(* (container_workflow_tool/main.py): one run of the build orchestration,  *)
(* together with the build processes it spawns and the two pipes of each.  *)
(*                                                                         *)
(* A spawned process is named by the position of its image in image_set;   *)
(* the pair (proc, component) of the source is <<i, image_set[i]>>, so the  *)
(* list procs of the source is kept as the list of positions.              *)
(***************************************************************************)
EXTENDS Integers, Sequences, FiniteSets

\* ---------------------------------------------------------------- bounds
MaxImages == 2        \* longest image set handed to _build_images
PipeCap == 1          \* lines a pipe holds before a write blocks
MaxLayers == 2        \* most entries of the layer ordering of a configuration
MaxDoSet == 2         \* longest list of layer names given as do_set
MaxCalls == 2         \* _get_images calls followed on one ImageRebuilder
MaxRuns == 2          \* _build_images calls followed on one ImageRebuilder

\* Names of the components of the images; image_set is a leading part of it.
ComponentList == <<"A", "B", "C">>
Components == { ComponentList[k] : k \in 1..MaxImages }
ImageSets == { SubSeq(ComponentList, 1, k) : k \in 0..MaxImages }
Slots == 1..MaxImages

\* Branch names and release substrings are strings: sequences of characters.
ActiveBranches == { <<"r", "x">>, <<"m">> }
ReleaseLists == { <<>>, << <<"r">> >> }
BranchArgs == { <<>>, << <<"m">> >> }
\* Repo(cwd) fails: there is no checkout, hence no branch name.
NoRepo == <<>>

\* Names a layer can have in the configuration, and the value the lookup of a
\* name yields when the configuration has no such entry.
LayerNames == {"L1", "L2", "L3"}
None == <<"None">>
\* self.image_set or the argument image_set when it is None.
NoSet == "none"
SetNames == LayerNames \cup {NoSet}
\* ret before any return of _get_images.
NotReturned == <<"NotReturned">>
\* The image lists a configuration gives its layers; an image descriptor is
\* named by its component, as in image_set.
LayerLists == { <<"A", "B">>, <<"C">>, <<"B">> }
\* Configurations: L1 and L2 are configured, L3 is not.
Configs ==
    { f \in [LayerNames -> LayerLists \cup {None}] :
        f["L1"] # None /\ f["L2"] # None /\ f["L3"] = None }
\* Layer orderings: ordinal -> layer entries in the order they are declared,
\* no ordinal twice (it is the key of a mapping), over the configured layers.
Ordinals == 1..MaxLayers
LayerOrders ==
    UNION { { o \in [1..n -> Ordinals \X {"L1", "L2"}] :
                \A a, b \in 1..n : a # b => o[a][1] # o[b][1] } : n \in 0..MaxLayers }
DoSets == UNION { [1..n -> LayerNames] : n \in 0..MaxDoSet }
FilterSets == { {}, {"B"}, {"A", "B"} }

VARIABLES
    pc,               \* position of _build_images
    image_set,        \* argument image_set: sequence of components
    tmp,              \* _get_tmp_workdir(setup_dir=False) finds a directory
    repo,             \* component -> NoRepo or the active branch of its checkout
    conf_releases,    \* the "current" branch of each release of self.conf
    branches_default, \* the list object that is the default of parameter branches
    branches,         \* the list bound to parameter branches in this call
    branches_given,   \* this call was made with an explicit branches argument
    runs,             \* _build_images calls made on this ImageRebuilder
    chk,              \* _prebuild_check: position of the image examined next
    raised,           \* the error that left _build_images, "none" if none
    raisedFor,        \* the component the error names, "none" if none
    sp,               \* spawn loop: position of the image spawned next
    procs,            \* the list procs
    spawnCount,       \* per position: number of Popen calls that succeeded
    d,                \* task discovery: index into procs of the process read
    idx,              \* wait phase: index of the list iterator of the for loop
    passStart,        \* procs as it was when the current for loop began
    attemptOrder,     \* positions in the order of this for loop's communicate calls
    emptied,          \* times a removal left procs empty
    st,               \* per position: "none", "running", "hung", "exited"
    outPipe,          \* per position: lines in the standard output pipe
    errPipe,          \* per position: lines in the standard error pipe
    pending,          \* per position: the pipe a blocked write waits for
    exitCode,         \* per position: exit status once exited
    errData,          \* per position: communicate has collected stderr content
    taskLogged,       \* per position: the taskID line was logged
    warned,           \* per position: "Could not find task" was logged
    errLogged,        \* per position: logger.error(err) was called
    finished,         \* positions in the order "build has finished" was logged
    warnedEmpty,      \* "No images to build, exiting." was logged
    discLog,          \* task discovery: <<position, "task" or "warn">> as logged
    layers,           \* self.conf.layers.items(): <<ordinal, layer>> as declared
    conf,             \* layer name -> its image list in self.conf, None if absent
    do_set,           \* self.do_set: names of layers, <<>> when not provided
    do_image,         \* self.do_image: components to keep
    exclude_image,    \* self.exclude_image: components to drop
    self_image_set,   \* self.image_set: the name of an image set, NoSet if None
    arg_image_set,    \* argument image_set of build_images, NoSet if None
    rpc,              \* position of _get_images
    images,           \* the local list images of _get_images
    rk,               \* _get_images: position in the loop over layers
    base,             \* the argument of the last _filter_images call
    ret,              \* what the last _get_images call returned
    prev_ret,         \* what the _get_images call before it returned
    calls             \* _get_images calls begun

envVars == <<image_set, tmp, repo, conf_releases>>
supVars == <<pc, branches_default, branches, branches_given, runs, chk, raised, raisedFor, sp, procs,
             spawnCount, d, idx, passStart, attemptOrder, emptied>>
procVars == <<st, outPipe, errPipe, pending, exitCode>>
logVars == <<errData, taskLogged, warned, errLogged, finished, warnedEmpty, discLog>>
confVars == <<layers, conf, do_set, do_image, exclude_image, self_image_set,
              arg_image_set>>
resVars == <<confVars, rpc, images, rk, base, ret, prev_ret, calls>>
buildVars == <<envVars, supVars, procVars, logVars>>
vars == <<buildVars, resVars>>

\* ------------------------------------------------------------- helpers
\* Mutant of IsSubstr: the branch name is compared with == .
IsSubstr_Equal(s, t) == s = t

\* s in t for Python strings: s occurs in t as a contiguous substring.
IsSubstr(s, t) ==
    \E k \in 0..Len(t) : k + Len(s) <= Len(t) /\ SubSeq(t, k + 1, k + Len(s)) = s

\* Mutant of ListRemove: procs.pop() in place of procs.remove(x).
ListRemove_Pop(l, x) == SubSeq(l, 1, Len(l) - 1)

\* list.remove(x): drops the first element equal to x.
RECURSIVE ListRemove(_, _)
ListRemove(l, x) ==
    IF l = <<>> THEN <<>>
    ELSE IF Head(l) = x THEN Tail(l)
    ELSE <<Head(l)>> \o ListRemove(Tail(l), x)

Range(l) == { l[k] : k \in 1..Len(l) }

\* --------------------------------------------------------------- Init
\* _build_images has not been entered.
BuildFresh ==
    /\ branches_default = <<>>
    /\ branches = <<>>
    /\ branches_given = FALSE
    /\ runs = 1
    /\ chk = 0
    /\ raised = "none"
    /\ raisedFor = "none"
    /\ sp = 1
    /\ procs = <<>>
    /\ spawnCount = [i \in Slots |-> 0]
    /\ d = 1
    /\ idx = 1
    /\ passStart = <<>>
    /\ attemptOrder = <<>>
    /\ emptied = 0
    /\ st = [i \in Slots |-> "none"]
    /\ outPipe = [i \in Slots |-> <<>>]
    /\ errPipe = [i \in Slots |-> 0]
    /\ pending = [i \in Slots |-> "none"]
    /\ exitCode = [i \in Slots |-> 0]
    /\ errData = [i \in Slots |-> FALSE]
    /\ taskLogged = [i \in Slots |-> FALSE]
    /\ warned = [i \in Slots |-> FALSE]
    /\ errLogged = [i \in Slots |-> FALSE]
    /\ finished = <<>>
    /\ warnedEmpty = FALSE
    /\ discLog = <<>>

\* _get_images has not been entered.
ResolverFresh ==
    /\ rpc = "idle"
    /\ images = <<>>
    /\ rk = 1
    /\ base = <<>>
    /\ ret = NotReturned
    /\ prev_ret = NotReturned
    /\ calls = 0

\* A build run: _build_images is called with some image set, in some state of
\* the working directory and of the releases of the configuration.
Init ==
    /\ image_set \in ImageSets
    /\ tmp \in BOOLEAN
    /\ repo \in [Components -> {NoRepo} \cup ActiveBranches]
    /\ conf_releases \in ReleaseLists
    /\ pc = "start"
    /\ BuildFresh
    /\ layers = <<>>
    /\ conf = [l \in LayerNames |-> None]
    /\ do_set = <<>>
    /\ do_image = {}
    /\ exclude_image = {}
    /\ self_image_set = NoSet
    /\ arg_image_set = NoSet
    /\ ResolverFresh

\* ------------------------------------------- _build_images, lines 238-247
\* Lines 243-246: a list that is empty is filled, in place, with the "current"
\* branch of every release of self.conf; a list that is not empty is used as
\* it is.
FillDefaults(l) == IF l = <<>> THEN l \o conf_releases ELSE l

\* Mutant of BuildStart: the test for an empty image set is missing, so the
\* defaults are filled and _prebuild_check is called for an empty set too.
BuildStart_NoEmptyTest ==
    /\ pc = "start"
    /\ pc' = "check"
    /\ \E arg \in BranchArgs :
         /\ branches_given' = (arg # <<>>)
         /\ IF arg # <<>>
            THEN /\ branches' = arg
                 /\ UNCHANGED branches_default
            ELSE /\ branches_default' = FillDefaults(branches_default)
                 /\ branches' = branches_default'
    /\ UNCHANGED <<resVars, envVars, runs, chk, raised, raisedFor, sp, procs, spawnCount, d, idx,
                   passStart, attemptOrder, emptied, procVars, logVars>>

\* The empty image set returns at once.  Otherwise parameter branches is the
\* caller's list when one is passed and the default list object when not; an
\* empty list is filled in place with the "current" branch of every release.
BuildStart ==
    /\ pc = "start"
    /\ IF image_set = <<>>
       THEN /\ pc' = "done"
            /\ warnedEmpty' = TRUE
            /\ UNCHANGED <<branches_default, branches, branches_given>>
       ELSE /\ pc' = "check"
            /\ UNCHANGED warnedEmpty
            /\ \E arg \in BranchArgs :
                 /\ branches_given' = (arg # <<>>)
                 /\ IF arg # <<>>
                    THEN /\ branches' = arg
                         /\ UNCHANGED branches_default
                    ELSE /\ branches_default' = FillDefaults(branches_default)
                         /\ branches' = branches_default'
    /\ UNCHANGED <<resVars, envVars, runs, chk, raised, raisedFor, sp, procs, spawnCount, d, idx,
                   passStart, attemptOrder, emptied, procVars,
                   errData, taskLogged, warned, errLogged, finished, discLog>>

\* ------------------------------------------ _prebuild_check, lines 219-236
\* Line 234: some release occurs in the name of the active branch.
BranchAccepted(releases, branch) ==
    \E k \in 1..Len(releases) : IsSubstr(releases[k], branch)

\* The image with component c does not pass lines 226-236.
ImageFails(c, releases) ==
    \/ repo[c] = NoRepo
    \/ releases # <<>> /\ ~BranchAccepted(releases, repo[c])

\* Lines 220-222: no working directory.
PrebuildTmp ==
    /\ pc = "check" /\ chk = 0
    /\ IF tmp
       THEN chk' = 1 /\ UNCHANGED <<pc, raised, raisedFor>>
       ELSE pc' = "raised" /\ raised' = "workdir" /\ UNCHANGED <<chk, raisedFor>>
    /\ UNCHANGED <<resVars, envVars, branches_default, branches, branches_given, runs, sp, procs, spawnCount, d, idx,
                   passStart, attemptOrder, emptied, procVars, logVars>>

\* Mutant of PrebuildImage: the failure is logged (as line 231 does) and not
\* raised, so the loop goes on to the next image.
PrebuildImage_LogOnly ==
    /\ pc = "check" /\ chk \in 1..Len(image_set)
    /\ chk' = chk + 1
    /\ pc' = IF chk = Len(image_set) THEN "spawn" ELSE "check"
    /\ UNCHANGED <<resVars, envVars, branches_default, branches, branches_given, runs, raised, raisedFor, sp, procs,
                   spawnCount, d, idx, passStart, attemptOrder, emptied, procVars,
                   logVars>>

\* Lines 225-236: one turn of the loop over image_set; the first image that
\* does not pass raises, and the loop falls through to the spawn loop.
\* The RebuilderError of line 235 names the component.  When Repo(cwd) raises,
\* the except clause of line 230 names GitError, which nothing in main.py
\* binds: evaluating it raises NameError, whose text names no component, and
\* line 231 is not reached.
PrebuildImage ==
    /\ pc = "check" /\ chk \in 1..Len(image_set)
    /\ LET c == image_set[chk] IN
       IF ImageFails(c, branches)
       THEN /\ pc' = "raised"
            /\ raised' = IF repo[c] = NoRepo THEN "repository" ELSE "branch"
            /\ raisedFor' = IF repo[c] = NoRepo THEN "none" ELSE c
            /\ UNCHANGED chk
       ELSE /\ chk' = chk + 1
            /\ pc' = IF chk = Len(image_set) THEN "spawn" ELSE "check"
            /\ UNCHANGED <<raised, raisedFor>>
    /\ UNCHANGED <<resVars, envVars, branches_default, branches, branches_given, runs, sp, procs, spawnCount, d, idx,
                   passStart, attemptOrder, emptied, procVars, logVars>>

\* ------------------------------------------- _build_images, lines 249-262
\* Popen either starts the build command or raises (OSError): nothing in the
\* loop catches it, so it leaves _build_images with procs unwaited.
PopenRaises == BOOLEAN

SpawnNext ==
    /\ pc = "spawn" /\ sp \in 1..Len(image_set)
    /\ \E fails \in PopenRaises :
         IF fails
         THEN /\ pc' = "raised"
              /\ raised' = "spawn"
              /\ UNCHANGED <<sp, procs, spawnCount, st>>
         ELSE /\ st' = [st EXCEPT ![sp] = "running"]
              /\ spawnCount' = [spawnCount EXCEPT ![sp] = @ + 1]
              /\ procs' = Append(procs, sp)
              /\ sp' = sp + 1
              /\ pc' = IF sp = Len(image_set) THEN "discover" ELSE "spawn"
              /\ UNCHANGED raised
    /\ UNCHANGED <<resVars, envVars, branches_default, branches, branches_given, runs, chk, raisedFor, d, idx,
                   passStart, attemptOrder, emptied,
                   outPipe, errPipe, pending, exitCode, logVars>>

\* ------------------------------------------- _build_images, lines 264-277
\* proc.stdout.readline() returns the next line of the pipe, "" once the pipe
\* is empty and closed, and does not return while it is empty and open.
StdoutAtEof(p) == outPipe[p] = <<>> /\ st[p] = "exited"
\* Mutant of ReadlineBlocks: the end of the stream is never seen (the write end
\* of the pipe is still held open somewhere).
ReadlineBlocks_NoEof(p) == outPipe[p] = <<>>
ReadlineBlocks(p) == outPipe[p] = <<>> /\ st[p] # "exited"

\* Mutant of AfterDiscovery: the wait loop is entered after the first process
\* has been read (the wait loop nested in the discovery loop).
AfterDiscovery_Early(k) == "while"

\* The loop over procs is over once d is past the last process.
AfterDiscovery(k) == IF k > Len(procs) THEN "while" ELSE "discover"

\* Mutant of DiscoverRead: a process whose stream ends without the marker is
\* taken out of procs.
DiscoverRead_Drop ==
    /\ pc = "discover" /\ d \in 1..Len(procs)
    /\ LET p == procs[d] IN
       /\ ~ReadlineBlocks(p)
       /\ IF StdoutAtEof(p)
          THEN /\ warned' = [warned EXCEPT ![p] = TRUE]
               /\ discLog' = Append(discLog, <<p, "warn">>)
               /\ procs' = ListRemove(procs, p)
               /\ pc' = IF d > Len(procs') THEN "while" ELSE "discover"
               /\ UNCHANGED <<outPipe, taskLogged, d>>
          ELSE /\ outPipe' = [outPipe EXCEPT ![p] = Tail(@)]
               /\ IF Head(outPipe[p]) = "task"
                  THEN /\ taskLogged' = [taskLogged EXCEPT ![p] = TRUE]
                       /\ discLog' = Append(discLog, <<p, "task">>)
                       /\ d' = d + 1
                       /\ pc' = AfterDiscovery(d + 1)
                  ELSE UNCHANGED <<taskLogged, discLog, d, pc>>
               /\ UNCHANGED <<warned, procs>>
    /\ UNCHANGED <<resVars, envVars, branches_default, branches, branches_given, runs, chk, raised, raisedFor, sp,
                   spawnCount, idx, passStart, attemptOrder, emptied,
                   st, errPipe, pending, exitCode, errData, errLogged, finished,
                   warnedEmpty>>

\* Mutant of DiscoverRead: the break of line 272 is missing, so the lines of a
\* process are read on after its taskID line, to the end of its stream.
DiscoverRead_NoBreak ==
    /\ pc = "discover" /\ d \in 1..Len(procs)
    /\ LET p == procs[d] IN
       /\ ~ReadlineBlocks(p)
       /\ IF StdoutAtEof(p)
          THEN /\ warned' = [warned EXCEPT ![p] = TRUE]
               /\ discLog' = Append(discLog, <<p, "warn">>)
               /\ d' = d + 1
               /\ pc' = AfterDiscovery(d + 1)
               /\ UNCHANGED <<outPipe, taskLogged>>
          ELSE /\ outPipe' = [outPipe EXCEPT ![p] = Tail(@)]
               /\ IF Head(outPipe[p]) = "task"
                  THEN /\ taskLogged' = [taskLogged EXCEPT ![p] = TRUE]
                       /\ discLog' = Append(discLog, <<p, "task">>)
                  ELSE UNCHANGED <<taskLogged, discLog>>
               /\ UNCHANGED <<warned, d, pc>>
    /\ UNCHANGED <<resVars, envVars, branches_default, branches, branches_given, runs, chk, raised, raisedFor, sp,
                   procs, spawnCount, idx, passStart, attemptOrder, emptied,
                   st, errPipe, pending, exitCode, errData, errLogged, finished,
                   warnedEmpty>>

DiscoverRead ==
    /\ pc = "discover" /\ d \in 1..Len(procs)
    /\ LET p == procs[d] IN
       /\ ~ReadlineBlocks(p)
       /\ IF StdoutAtEof(p)
          THEN \* for ... else: the stream ended without the marker
               /\ warned' = [warned EXCEPT ![p] = TRUE]
               /\ discLog' = Append(discLog, <<p, "warn">>)
               /\ d' = d + 1
               /\ pc' = AfterDiscovery(d + 1)
               /\ UNCHANGED <<outPipe, taskLogged>>
          ELSE /\ outPipe' = [outPipe EXCEPT ![p] = Tail(@)]
               /\ IF Head(outPipe[p]) = "task"
                  THEN /\ taskLogged' = [taskLogged EXCEPT ![p] = TRUE]
                       /\ discLog' = Append(discLog, <<p, "task">>)
                       /\ d' = d + 1
                       /\ pc' = AfterDiscovery(d + 1)
                  ELSE UNCHANGED <<taskLogged, discLog, d, pc>>
               /\ UNCHANGED warned
    /\ UNCHANGED <<resVars, envVars, branches_default, branches, branches_given, runs, chk, raised, raisedFor, sp,
                   procs, spawnCount, idx, passStart, attemptOrder, emptied,
                   st, errPipe, pending, exitCode, errData, errLogged, finished,
                   warnedEmpty>>

\* ------------------------------------------- _build_images, lines 279-299
\* Line 281, while procs: the test that ends the run or starts a for loop
\* over procs with a fresh list iterator.
WhileTest ==
    /\ pc = "while"
    /\ IF procs = <<>>
       THEN /\ pc' = "done"
            /\ UNCHANGED <<idx, passStart, attemptOrder>>
       ELSE /\ pc' = "for"
            /\ idx' = 1
            /\ passStart' = procs
            /\ attemptOrder' = <<>>
    /\ UNCHANGED <<resVars, envVars, branches_default, branches, branches_given, runs, chk, raised, raisedFor, sp,
                   procs, spawnCount, d, emptied, procVars, logVars>>

\* Mutant of ForStep: the continue of line 292 is missing, so a pair whose wait
\* timed out is reported and removed like one that finished.
ForStep_NoContinue ==
    /\ pc = "for"
    /\ IF idx > Len(procs)
       THEN /\ pc' = "while"
            /\ UNCHANGED <<idx, procs, attemptOrder, emptied, outPipe, errPipe,
                           errData, errLogged, finished>>
       ELSE LET p == procs[idx]
                err == errData[p] \/ errPipe[p] > 0
            IN
            /\ attemptOrder' = Append(attemptOrder, p)
            /\ outPipe' = [outPipe EXCEPT ![p] = <<>>]
            /\ errPipe' = [errPipe EXCEPT ![p] = 0]
            /\ errData' = [errData EXCEPT ![p] = err]
            /\ idx' = idx + 1
            /\ finished' = Append(finished, p)
            /\ errLogged' = [errLogged EXCEPT ![p] = err]
            /\ procs' = ListRemove(procs, p)
            /\ emptied' = IF procs' = <<>> THEN emptied + 1 ELSE emptied
            /\ UNCHANGED pc
    /\ UNCHANGED <<resVars, envVars, branches_default, branches, branches_given, runs, chk, raised, raisedFor, sp,
                   spawnCount, d, passStart, st, pending, exitCode,
                   taskLogged, warned, warnedEmpty, discLog>>

\* The list iterator of line 283 yields procs[idx] of the list as it is now
\* and stops once idx is past its end.
IteratorNext(l, k) == k + 1

\* Lines 283-299 for the pair the iterator yields.  communicate(timeout) reads
\* both pipes; it returns once both are at end of stream and the process has
\* exited, and raises TimeoutExpired otherwise.
ForStep ==
    /\ pc = "for"
    /\ IF idx > Len(procs)
       THEN /\ pc' = "while"
            /\ UNCHANGED <<idx, procs, attemptOrder, emptied, outPipe, errPipe,
                           errData, errLogged, finished>>
       ELSE LET p == procs[idx]
                err == errData[p] \/ errPipe[p] > 0
            IN
            /\ attemptOrder' = Append(attemptOrder, p)
            /\ outPipe' = [outPipe EXCEPT ![p] = <<>>]
            /\ errPipe' = [errPipe EXCEPT ![p] = 0]
            /\ errData' = [errData EXCEPT ![p] = err]
            /\ idx' = IteratorNext(procs, idx)
            /\ IF st[p] = "exited"
               THEN /\ finished' = Append(finished, p)
                    /\ errLogged' = [errLogged EXCEPT ![p] = err]
                    /\ procs' = ListRemove(procs, p)
                    /\ emptied' = IF procs' = <<>> THEN emptied + 1 ELSE emptied
               ELSE UNCHANGED <<finished, errLogged, procs, emptied>>
            /\ UNCHANGED pc
    /\ UNCHANGED <<resVars, envVars, branches_default, branches, branches_given, runs, chk, raised, raisedFor, sp,
                   spawnCount, d, passStart, st, pending, exitCode,
                   taskLogged, warned, warnedEmpty, discLog>>

\* ------------------------------------------------- the build processes
\* What `<packager> container-build` does is not in this repository: a running
\* process may write a line to either pipe, exit with any status, or stay
\* alive for good without writing ("hung").  A write to a full pipe blocks the
\* process until the pipe has room.
\* The processes are followed for as long as _build_images runs.
InRun == pc \notin {"done", "raised"}
OutLines == {"task", "line"}
ExitCodes == {0, 1}

ProcWriteOut(p) ==
    /\ InRun /\ st[p] = "running" /\ pending[p] = "none"
    /\ IF Len(outPipe[p]) < PipeCap
       THEN /\ \E l \in OutLines : outPipe' = [outPipe EXCEPT ![p] = Append(@, l)]
            /\ UNCHANGED pending
       ELSE /\ pending' = [pending EXCEPT ![p] = "out"]
            /\ UNCHANGED outPipe
    /\ UNCHANGED <<resVars, envVars, supVars, st, errPipe, exitCode, logVars>>

ProcWriteErr(p) ==
    /\ InRun /\ st[p] = "running" /\ pending[p] = "none"
    /\ IF errPipe[p] < PipeCap
       THEN /\ errPipe' = [errPipe EXCEPT ![p] = @ + 1]
            /\ UNCHANGED pending
       ELSE /\ pending' = [pending EXCEPT ![p] = "err"]
            /\ UNCHANGED errPipe
    /\ UNCHANGED <<resVars, envVars, supVars, st, outPipe, exitCode, logVars>>

ProcResume(p) ==
    /\ InRun /\ st[p] = "running"
    /\ \/ /\ pending[p] = "out" /\ Len(outPipe[p]) < PipeCap
          /\ \E l \in OutLines : outPipe' = [outPipe EXCEPT ![p] = Append(@, l)]
          /\ UNCHANGED errPipe
       \/ /\ pending[p] = "err" /\ errPipe[p] < PipeCap
          /\ errPipe' = [errPipe EXCEPT ![p] = @ + 1]
          /\ UNCHANGED outPipe
    /\ pending' = [pending EXCEPT ![p] = "none"]
    /\ UNCHANGED <<resVars, envVars, supVars, st, exitCode, logVars>>

ProcExit(p) ==
    /\ InRun /\ st[p] = "running" /\ pending[p] = "none"
    /\ \E code \in ExitCodes : exitCode' = [exitCode EXCEPT ![p] = code]
    /\ st' = [st EXCEPT ![p] = "exited"]
    /\ UNCHANGED <<resVars, envVars, supVars, outPipe, errPipe, pending, logVars>>

ProcHang(p) ==
    /\ InRun /\ st[p] = "running" /\ pending[p] = "none"
    /\ st' = [st EXCEPT ![p] = "hung"]
    /\ UNCHANGED <<resVars, envVars, supVars, outPipe, errPipe, pending, exitCode, logVars>>

\* --------------------------------------------- _get_images, lines 198-217
\* getattr(self.conf, layer, []): the attribute lookup of class Config.  A
\* name the configuration does not have yields None, the value line 113
\* tests for.
ConfGetattr(layer) == conf[layer]

\* Mutant of GetSetRaises: the test of line 113 is missing.
GetSetRaises_Never(layer) == FALSE

\* _get_set_from_config, lines 111-116: raises RebuilderError for a layer that
\* is not in the configuration and returns the layer's list otherwise.
GetSetRaises(layer) == ConfGetattr(layer) = None

\* Mutant of FilterImages: the exclude filter is applied after the include
\* filter as well.
FilterImages_Both(b) ==
    LET Keep(c) == (do_image = {} \/ c \in do_image) /\ c \notin exclude_image
    IN SelectSeq(b, Keep)

\* _filter_images, lines 211-217.
FilterImages(b) ==
    LET In(c) == c \in do_image
        NotOut(c) == c \notin exclude_image
    IN IF do_image # {} THEN SelectSeq(b, In)
       ELSE IF exclude_image # {} THEN SelectSeq(b, NotOut)
       ELSE b

\* Mutant of GetImagesStart: images is not made a new list by the call (as a
\* list that is a default argument or an attribute would not be).
GetImagesStart_Keep ==
    /\ rpc \in {"idle", "returned", "raised"} /\ calls < MaxCalls
    /\ calls' = calls + 1
    /\ prev_ret' = ret
    /\ ret' = NotReturned
    /\ rk' = 1
    /\ rpc' = IF do_set # <<>> THEN "do_set" ELSE "layers"
    /\ UNCHANGED <<buildVars, confVars, base, images>>

\* Lines 199-200: a call of _get_images, the first or one after an earlier
\* call has returned or raised.
GetImagesStart ==
    /\ rpc \in {"idle", "returned", "raised"} /\ calls < MaxCalls
    /\ calls' = calls + 1
    /\ prev_ret' = ret
    /\ ret' = NotReturned
    /\ images' = <<>>
    /\ rk' = 1
    /\ rpc' = IF do_set # <<>> THEN "do_set" ELSE "layers"
    /\ UNCHANGED <<buildVars, confVars, base>>

\* Line 209: return self._filter_images(images).
FilterAndReturn ==
    /\ base' = images
    /\ ret' = FilterImages(images)
    /\ rpc' = "returned"
    /\ UNCHANGED <<images, rk>>

\* Lines 202-203: one turn of the loop over self.do_set, line 209 after it.
DoSetStep ==
    /\ rpc = "do_set"
    /\ IF rk > Len(do_set)
       THEN FilterAndReturn
       ELSE IF GetSetRaises(do_set[rk])
            THEN /\ rpc' = "raised"
                 /\ UNCHANGED <<images, rk, base, ret>>
            ELSE /\ images' = images \o ConfGetattr(do_set[rk])
                 /\ rk' = rk + 1
                 /\ UNCHANGED <<rpc, base, ret>>
    /\ UNCHANGED <<buildVars, confVars, prev_ret, calls>>

\* Lines 206-208: one turn of the loop over self.conf.layers.items(), which
\* yields the entries in the order the mapping holds them; line 209 after it.
LayersStep ==
    /\ rpc = "layers"
    /\ IF rk > Len(layers)
       THEN FilterAndReturn
       ELSE /\ images' = images \o ConfGetattr(layers[rk][2])
            /\ rk' = rk + 1
            /\ UNCHANGED <<rpc, base, ret>>
    /\ UNCHANGED <<buildVars, confVars, prev_ret, calls>>

\* Calls of _get_images on an ImageRebuilder whose configuration and filters
\* are set and that builds nothing.
RInit ==
    /\ conf \in Configs
    /\ layers \in LayerOrders
    /\ do_set \in DoSets
    /\ do_image \in FilterSets
    /\ exclude_image \in FilterSets
    /\ ResolverFresh
    /\ image_set = <<>>
    /\ tmp = FALSE
    /\ repo = [c \in Components |-> NoRepo]
    /\ conf_releases = <<>>
    /\ self_image_set = NoSet
    /\ arg_image_set = NoSet
    /\ pc = "start"
    /\ BuildFresh

RNext == GetImagesStart \/ DoSetStep \/ LayersStep

\* ------------------------------------------- build_images, lines 443-453
\* Mutant of BuildImages: the stored self.image_set is taken when it is set,
\* the argument only when it is not.
BuildImages_StoredFirst ==
    /\ pc = "idle"
    /\ IF arg_image_set = NoSet /\ self_image_set = NoSet
       THEN /\ pc' = "raised"
            /\ raised' = "image_set"
            /\ UNCHANGED image_set
       ELSE LET name == IF self_image_set = NoSet THEN arg_image_set
                        ELSE self_image_set
            IN IF GetSetRaises(name)
               THEN /\ pc' = "raised"
                    /\ raised' = "config"
                    /\ UNCHANGED image_set
               ELSE /\ image_set' = FilterImages(ConfGetattr(name))
                    /\ pc' = "start"
                    /\ UNCHANGED raised
    /\ UNCHANGED <<resVars, tmp, repo, conf_releases, branches_default, branches,
                   branches_given, runs, chk, raisedFor, sp, procs, spawnCount, d,
                   idx, passStart, attemptOrder, emptied, procVars, logVars>>

\* build_images up to its call of _build_images (line 453), which the steps
\* of _build_images carry out from pc = "start" with the images as image_set.
\* Line 448 raises when neither the argument nor self.image_set is set; line
\* 451 raises when the configuration has no image set of that name.
BuildImages ==
    /\ pc = "idle"
    /\ IF arg_image_set = NoSet /\ self_image_set = NoSet
       THEN /\ pc' = "raised"
            /\ raised' = "image_set"
            /\ UNCHANGED image_set
       ELSE LET name == IF arg_image_set = NoSet THEN self_image_set
                        ELSE arg_image_set
            IN IF GetSetRaises(name)
               THEN /\ pc' = "raised"
                    /\ raised' = "config"
                    /\ UNCHANGED image_set
               ELSE /\ image_set' = FilterImages(ConfGetattr(name))
                    /\ pc' = "start"
                    /\ UNCHANGED raised
    /\ UNCHANGED <<resVars, tmp, repo, conf_releases, branches_default, branches,
                   branches_given, runs, chk, raisedFor, sp, procs, spawnCount, d,
                   idx, passStart, attemptOrder, emptied, procVars, logVars>>

\* The configuration of the calls of build_images followed: image sets L1 of
\* two images and L2 of one, none named L3.
BuildConfigs ==
    { c \in Configs : c["L1"] = <<"A", "B">> /\ c["L2"] = <<"B">> }
\* do_set is not given or names the other image set.
BuildDoSets == { s \in DoSets : Len(s) <= 1 /\ \A k \in 1..Len(s) : s[k] = "L2" }

\* A call of build_images on an ImageRebuilder with some image set name
\* stored or not, some do_set and filters, in a working directory where every
\* component is checked out on branch "m".
BInit ==
    /\ conf \in BuildConfigs
    /\ layers = << <<1, "L1">>, <<2, "L2">> >>
    /\ do_set \in BuildDoSets
    /\ do_image \in FilterSets
    /\ exclude_image \in FilterSets
    /\ self_image_set \in SetNames
    /\ arg_image_set \in SetNames
    /\ ResolverFresh
    /\ image_set = <<>>
    /\ tmp = TRUE
    /\ repo = [c \in Components |-> <<"m">>]
    /\ conf_releases = <<>>
    /\ pc = "idle"
    /\ BuildFresh

\* ------------------------------------- repeated calls of _build_images
\* The call has returned or raised and _build_images is called again, with the
\* same image set.  Everything local to the call starts anew; the list that
\* is the default of parameter branches belongs to the function and is the
\* same object in every call.  (Processes an earlier call left behind are no
\* longer followed.)
BuildAgain ==
    /\ pc \in {"done", "raised"} /\ runs < MaxRuns
    /\ runs' = runs + 1
    /\ pc' = "start"
    /\ branches' = <<>>
    /\ branches_given' = FALSE
    /\ chk' = 0
    /\ raised' = "none"
    /\ raisedFor' = "none"
    /\ sp' = 1
    /\ procs' = <<>>
    /\ spawnCount' = [i \in Slots |-> 0]
    /\ d' = 1
    /\ idx' = 1
    /\ passStart' = <<>>
    /\ attemptOrder' = <<>>
    /\ emptied' = 0
    /\ st' = [i \in Slots |-> "none"]
    /\ outPipe' = [i \in Slots |-> <<>>]
    /\ errPipe' = [i \in Slots |-> 0]
    /\ pending' = [i \in Slots |-> "none"]
    /\ exitCode' = [i \in Slots |-> 0]
    /\ errData' = [i \in Slots |-> FALSE]
    /\ taskLogged' = [i \in Slots |-> FALSE]
    /\ warned' = [i \in Slots |-> FALSE]
    /\ errLogged' = [i \in Slots |-> FALSE]
    /\ finished' = <<>>
    /\ warnedEmpty' = FALSE
    /\ discLog' = <<>>
    /\ UNCHANGED <<resVars, envVars, branches_default>>

\* The configurations set_config can load here: no layers, any releases.
SessionConfigs ==
    { [releases |-> r, layers |-> <<>>, sets |-> [l \in LayerNames |-> None]] :
        r \in ReleaseLists }

\* set_config, lines 350-368, between two calls: self.conf is a new Config.
SetConfig ==
    /\ pc = "start"
    /\ \E c \in SessionConfigs :
         /\ conf_releases' = c.releases
         /\ layers' = c.layers
         /\ conf' = c.sets
    /\ UNCHANGED <<image_set, tmp, repo, supVars, procVars, logVars,
                   do_set, do_image, exclude_image, self_image_set, arg_image_set,
                   rpc, images, rk, base, ret, prev_ret, calls>>

\* ------------------------------------------------------ specification
Supervisor ==
    \/ BuildStart
    \/ PrebuildTmp
    \/ PrebuildImage
    \/ SpawnNext
    \/ DiscoverRead
    \/ WhileTest
    \/ ForStep

Process(p) ==
    \/ ProcWriteOut(p)
    \/ ProcWriteErr(p)
    \/ ProcResume(p)
    \/ ProcExit(p)
    \/ ProcHang(p)

Next == Supervisor \/ \E p \in Slots : Process(p)

Spec == Init /\ [][Next]_vars

\* _build_images is one thread that keeps running: whatever step it can take it
\* takes.  Nothing makes a build process ever write or exit.
FairSpec == Spec /\ WF_vars(Supervisor)

\* The image set resolver on its own.
ResolverSpec == RInit /\ [][RNext]_vars

\* Several calls of _build_images on one ImageRebuilder, with set_config
\* between them.
SNext == Next \/ BuildAgain \/ SetConfig

SessionSpec == Init /\ [][SNext]_vars

\* A call of build_images and the build run it starts.
BNext == BuildImages \/ Next

BuildImagesSpec == BInit /\ [][BNext]_vars

\* ================================================================ claims
Count(l, x) == Cardinality({ k \in 1..Len(l) : l[k] = x })
Images == 1..Len(image_set)
\* At or past line 279 (an empty image set returns at line 242, before it).
InWaitPhase == pc \in {"while", "for"} \/ (pc = "done" /\ image_set # <<>>)
Finalized(p) == p \in Range(finished)

\* C1: when Popen fails for one image, only that image is lost: every other
\* image of the set has been spawned and finalized by the time the run is
\* over, and no spawned process is left behind.
C1_SpawnFailureIsolated ==
    (pc = "raised" /\ raised = "spawn") =>
        \A i \in Images \ {sp} : spawnCount[i] = 1 /\ Finalized(i)

\* Image i has no checkout, or accepted substrings are given and its branch
\* contains none of them.
C2_Offending(i) ==
    \/ repo[image_set[i]] = NoRepo
    \/ /\ branches # <<>>
       /\ \A k \in 1..Len(branches) : ~IsSubstr(branches[k], repo[image_set[i]])

\* C2: for a non-empty image set in which the working directory is missing, or
\* some image has no checkout or a branch containing none of the accepted
\* substrings, the call raises and no process at all is spawned, whichever
\* position the offending image has.
C2_AllOrNothing ==
    (pc # "start" /\ image_set # <<>> /\ (~tmp \/ \E i \in Images : C2_Offending(i)))
        => /\ \A j \in Slots : spawnCount[j] = 0 /\ st[j] = "none"
           /\ pc \in {"check", "raised"}
           /\ pc = "raised" => raised \in {"workdir", "repository", "branch"}

\* The offending image is not the first: the images before it passed.
C2_Witness ==
    /\ pc = "raised" /\ raised = "branch"
    /\ chk >= 2 /\ ~C2_Offending(1)
    /\ \A j \in Slots : spawnCount[j] = 0

\* C3: in the wait phase every spawned pair is finalized exactly once: none is
\* finalized twice, a pair is out of the working set exactly when it has been
\* finalized, the working set is empty only once all N are finalized, and it
\* becomes empty once.
C3_FinalizedExactlyOnce ==
    /\ \A i \in Slots : Count(finished, i) <= 1
    /\ InWaitPhase =>
         /\ \A i \in Images : (i \in Range(procs)) # Finalized(i)
         /\ procs = <<>> => Len(finished) = Cardinality({ i \in Slots : spawnCount[i] > 0 })
         /\ (emptied = 1) = (procs = <<>>)
    /\ emptied <= 1

\* All were finalized, and not in the order they were spawned in.
C3_Witness ==
    /\ pc = "done" /\ Len(finished) >= 2 /\ finished[1] # 1
    /\ emptied = 1

\* C4: when a for loop over the working set is over, every pair that was in
\* the working set when it began has had exactly one communicate call, in the
\* order of the working set, also when a pair was removed during the loop.
C4_EveryPairPolledOncePerPass ==
    pc = "while" => attemptOrder = passStart

\* C5: the supervisor is never left waiting on the output of one process that
\* stays alive and silent while another process has exited and is not yet
\* finalized.
C5_NeverBlockedOnOneProcess ==
    ~ \E p, q \in Slots :
        /\ pc = "discover" /\ d \in 1..Len(procs) /\ procs[d] = p
        /\ st[p] = "hung" /\ ReadlineBlocks(p)
        /\ q # p /\ st[q] = "exited" /\ ~Finalized(q)

\* C6: the supervisor never waits for a line of the standard output of a
\* process that cannot write it because it is itself blocked writing to its
\* full standard error pipe, which nothing reads; and a finalized process has
\* both pipes read to the end.
C6_NoPipeDeadlock ==
    /\ ~ \E p \in Slots :
          /\ pc = "discover" /\ d \in 1..Len(procs) /\ procs[d] = p
          /\ ReadlineBlocks(p)
          /\ pending[p] = "err" /\ errPipe[p] = PipeCap
    /\ \A p \in Slots :
          Finalized(p) => st[p] = "exited" /\ outPipe[p] = <<>> /\ errPipe[p] = 0

\* Task discovery has gone past process p.
DiscoveryOver(p) ==
    \/ InWaitPhase
    \/ pc = "discover" /\ \E k \in 1..(d - 1) : k <= Len(procs) /\ procs[k] = p

\* C7: a process whose standard output ends without the marker gets the
\* warning, is still in the working set or finalized afterwards, and is
\* finalized when the run is over; every process past task discovery has
\* either its task id or the warning logged, never both.
C7_NoMarkerStillTracked ==
    \A p \in Slots :
        /\ (st[p] # "none" /\ DiscoveryOver(p)) => (taskLogged[p] # warned[p])
        /\ warned[p] =>
             /\ p \in Range(procs) \cup Range(finished)
             /\ pc = "done" => Finalized(p)

\* One process gave its task id, another ended without it; both are finalized.
C7_Witness ==
    /\ pc = "done"
    /\ \E p, q \in Slots :
         warned[p] /\ taskLogged[q] /\ Finalized(p) /\ Finalized(q)

\* C8: what is reported for a finalized process tells a non-zero exit status
\* from a zero one: two finalized processes of which one exited zero and one
\* non-zero do not get the same report.  (The report of a finalized process
\* is the line "build has finished", the same for all, and the error log of
\* its standard error when that is not empty.)
C8_ExitStatusDecidesOutcome ==
    \A p, q \in Slots :
        (Finalized(p) /\ Finalized(q) /\ (exitCode[p] = 0) # (exitCode[q] = 0))
            => errLogged[p] # errLogged[q]

\* C9: if every spawned process exits in the end, the run ends; and it returns
\* only when every spawned process has exited.
C9_Terminates ==
    /\ (\A i \in Slots : <>[](st[i] \in {"none", "exited"}))
           => <>(pc \in {"done", "raised"})
    /\ [](pc = "done" => \A i \in Images : st[i] = "exited")

\* The run returned after more than one for loop: a timed-out pair was left
\* for a later pass.
C9_Witness ==
    /\ pc = "done" /\ Len(image_set) >= 2
    /\ Len(passStart) = 1 /\ Len(finished) = Len(image_set)

\* C10: the per-image lines the run ends with ("... build has finished") name
\* the components of the image set in the order of the image set.
C10_ReportInImageSetOrder ==
    pc = "done" => [k \in 1..Len(finished) |-> image_set[finished[k]]] = image_set

\* ------------------------------------------------ claims on _get_images
\* The elements of list b that are in set S, in the order of b.
RECURSIVE Only(_, _)
Only(b, S) ==
    IF b = <<>> THEN <<>>
    ELSE (IF Head(b) \in S THEN <<Head(b)>> ELSE <<>>) \o Only(Tail(b), S)

\* C11: when the include filter is not empty the result is the images of the
\* base list whose component is in it, whatever the exclude filter is; the
\* exclude filter drops its components only when the include filter is empty;
\* with both empty the result is the base list.
C11_FilterPrecedence ==
    rpc = "returned" =>
        /\ do_image # {} => ret = Only(base, do_image)
        /\ (do_image = {} /\ exclude_image # {})
               => ret = Only(base, Range(base) \ exclude_image)
        /\ (do_image = {} /\ exclude_image = {}) => ret = base

\* Both filters are given and an image the exclude filter names is kept.
C11_Witness ==
    /\ rpc = "returned" /\ do_image # {} /\ exclude_image # {}
    /\ \E c \in Range(ret) : c \in exclude_image

\* The image lists of the named layers, one after the other.
RECURSIVE Concat(_)
Concat(names) ==
    IF names = <<>> THEN <<>> ELSE conf[Head(names)] \o Concat(Tail(names))

RECURSIVE Ascending(_)
Ascending(S) ==
    IF S = {} THEN <<>>
    ELSE LET m == CHOOSE x \in S : \A y \in S : x <= y
             e == CHOOSE k \in 1..Len(layers) : layers[k][1] = m
         IN <<layers[e][2]>> \o Ascending(S \ {m})

\* C13: with no do_set, _get_images filters the image lists of all layers of
\* the ordering concatenated by ascending ordinal, in whatever order the
\* entries of the ordering are declared.
C13_AscendingOrdinalOrder ==
    (rpc = "returned" /\ do_set = <<>>) =>
        base = Concat(Ascending({ layers[k][1] : k \in 1..Len(layers) }))

\* C14: no component occurs twice in the image set _get_images returns.
C14_NoDuplicateComponent ==
    rpc = "returned" => \A k, j \in 1..Len(ret) : ret[k] = ret[j] => k = j

\* ---------------------------------------- further claims on _build_images
\* C15: with an empty image set _build_images is over at once: the warning is
\* logged, nothing is raised, _prebuild_check is not entered, the default
\* branches are not filled and no process is spawned, whether or not the
\* working directory exists and the configuration has releases; and the
\* warning is logged for an empty image set only.
C15_EmptySetNoOp ==
    /\ image_set = <<>> =>
           /\ pc \in {"start", "done"}
           /\ (pc = "done") = warnedEmpty
           /\ raised = "none" /\ chk = 0
           /\ branches_default = <<>> /\ branches = <<>>
           /\ procs = <<>>
           /\ \A i \in Slots : spawnCount[i] = 0 /\ st[i] = "none"
    /\ warnedEmpty => image_set = <<>>

\* An empty image set, no working directory, no releases: returned with the
\* warning.
C15_Witness ==
    pc = "done" /\ image_set = <<>> /\ ~tmp /\ conf_releases = <<>> /\ warnedEmpty

\* C16: a step of the for loop that waits on a process which has not exited
\* (the wait times out) raises nothing, leaves procs as it is, logs neither
\* "build has finished" nor an error for the pair, and the iterator moves to
\* the pair after it.
C16_TimeoutLeavesPairInPlace ==
    [][ ( /\ pc = "for" /\ idx \in 1..Len(procs)
          /\ st[procs[idx]] # "exited"
          /\ attemptOrder' # attemptOrder )
        => ( /\ procs' = procs
             /\ finished' = finished
             /\ errLogged' = errLogged
             /\ raised' = raised /\ pc' = "for"
             /\ idx' = idx + 1 ) ]_vars

\* The wait on the first pair timed out and the loop is at the second pair,
\* with the first still first in procs.
C16_Witness ==
    /\ pc = "for" /\ idx = 2 /\ attemptOrder = <<1>>
    /\ procs = <<1, 2>> /\ st[1] # "exited" /\ finished = <<>>

\* String s occurs in string t at some position.
Occurs(s, t) ==
    s = <<>> \/ \E a, b \in 1..Len(t) : a <= b /\ [k \in 1..(b - a + 1) |-> t[a + k - 1]] = s

\* The working directory exists, every image has a checkout, and either no
\* accepted substrings are given or one of them occurs in its branch name.
C17_Acceptable ==
    /\ tmp
    /\ \A i \in Images :
         /\ repo[image_set[i]] # NoRepo
         /\ branches = <<>> \/ \E k \in 1..Len(branches) :
                                  Occurs(branches[k], repo[image_set[i]])

\* C17: _prebuild_check lets a (non-empty) image set through to the spawn loop
\* exactly when it is acceptable in the sense above, a substring of the branch
\* name being enough; otherwise it raises.
C17_PrebuildAcceptsExactly ==
    image_set # <<>> =>
        /\ (pc \in {"spawn", "discover", "while", "for", "done"} \/ raised = "spawn")
               => C17_Acceptable
        /\ (pc = "raised" /\ raised \in {"workdir", "repository", "branch"})
               => ~C17_Acceptable
        /\ pc = "check" => chk <= Len(image_set)

\* Accepted with a branch name that contains the accepted substring and is
\* not equal to it.
C17_Witness ==
    /\ pc = "spawn" /\ branches = << <<"r">> >>
    /\ repo[image_set[1]] = <<"r", "x">>

\* C18: when _prebuild_check raises for an image, the image is the first of
\* the image set, in its order, that does not pass; the error names its
\* component; and no image after it has been examined.
C18_FirstOffendingNamed ==
    (pc = "raised" /\ raised \in {"repository", "branch"}) =>
        \E f \in Images :
            /\ C2_Offending(f)
            /\ \A i \in 1..(f - 1) : ~C2_Offending(i)
            /\ raisedFor = image_set[f]
            /\ chk = f

\* The positions of the processes spawned, in spawn order.
Spawned == { i \in Slots : spawnCount[i] > 0 }

\* C19: task discovery logs, for the spawned processes in spawn order, one
\* event each, the task id or the warning: the k-th event is about the k-th
\* process spawned, while discovery is at process d the events of the d - 1
\* processes before it are logged and no other, and once discovery is over
\* every spawned process has its one event.  Discovery reads only from the
\* process it is at, one line a step, and never again from a process whose
\* event is logged: the lines after a taskID line stay in the pipe until the
\* wait phase.
C19_DiscoveryInSpawnOrderOnce ==
    /\ [](/\ \A k \in 1..Len(discLog) :
               /\ discLog[k][1] = k /\ k \in Spawned
               /\ (discLog[k][2] = "task") = taskLogged[k]
               /\ (discLog[k][2] = "warn") = warned[k]
          /\ pc = "discover" => Len(discLog) = d - 1
          /\ pc \in {"start", "check", "spawn"} => discLog = <<>>
          /\ InWaitPhase => Len(discLog) = Cardinality(Spawned))
    /\ [][ \A p \in Slots :
             (pc = "discover" /\ Len(outPipe'[p]) < Len(outPipe[p])) =>
                 /\ d \in 1..Len(procs) /\ procs[d] = p
                 /\ outPipe'[p] = Tail(outPipe[p])
                 /\ \A k \in 1..Len(discLog) : discLog[k][1] # p
                 /\ (Head(outPipe[p]) = "task") =
                        (discLog' = Append(discLog, <<p, "task">>)) ]_vars

\* Discovery is over with a task id for the first process and a warning for
\* the second, and a line the first wrote after its taskID line is waiting in
\* its pipe.
C19_Witness ==
    /\ InWaitPhase /\ Len(discLog) = 2
    /\ discLog[1] = <<1, "task">> /\ discLog[2] = <<2, "warn">>
    /\ outPipe[1] # <<>> /\ finished = <<>>

\* ------------------------------------------ further claims on _get_images
\* List a is list b with some elements left out.
RECURSIVE IsSubseq(_, _)
IsSubseq(a, b) ==
    IF a = <<>> THEN TRUE
    ELSE IF b = <<>> THEN FALSE
    ELSE IF Head(a) = Head(b) THEN IsSubseq(Tail(a), Tail(b))
    ELSE IsSubseq(a, Tail(b))

\* The layer lists _get_images concatenates: those of do_set when given, else
\* those of the layer ordering.
C20_Concatenated ==
    IF do_set # <<>> THEN Concat(do_set)
    ELSE Concat([k \in 1..Len(layers) |-> layers[k][2]])

\* C20: what _get_images returns is the concatenated layer lists with some
\* images left out and the others in their order; a call made again with the
\* same configuration and filters returns what the call before it returned;
\* and for the layers [A, B] then [C] the result is [A, B, C] with no filter
\* and [A, C] with the exclude filter {B}.
C20_StableSubsequence ==
    rpc = "returned" =>
        /\ IsSubseq(ret, C20_Concatenated)
        /\ calls >= 2 => ret = prev_ret
        /\ ( /\ do_set = <<>> /\ do_image = {}
             /\ layers = << <<1, "L1">>, <<2, "L2">> >>
             /\ conf["L1"] = <<"A", "B">> /\ conf["L2"] = <<"C">> )
           => /\ exclude_image = {} => ret = <<"A", "B", "C">>
              /\ exclude_image = {"B"} => ret = <<"A", "C">>

\* The second call returned [A, C] for the layers [A, B] then [C] and the
\* exclude filter {B}.
C20_Witness ==
    /\ rpc = "returned" /\ calls = 2 /\ do_set = <<>>
    /\ exclude_image = {"B"} /\ ret = <<"A", "C">> /\ base = <<"A", "B", "C">>

\* -------------------------------- claims on repeated calls and build_images
\* C21: in every call of _build_images made without a branches argument, the
\* accepted branch substrings the prebuild check works with are the "current"
\* branches of the releases of the configuration in effect at the call, and
\* nothing of an earlier call or an earlier configuration.
C21_DefaultsFromCurrentConfig ==
    (pc # "start" /\ image_set # <<>> /\ ~branches_given) =>
        branches = conf_releases

\* C22: the phases of a run follow one another: task discovery reads a line
\* or logs an event only when every image of the set has been spawned, and a
\* process is waited on or finalized only when every spawned process has its
\* discovery event; so while discovery is going on nothing is finalized, not
\* even a process that has exited already.
C22_PhasesInOrder ==
    /\ [](/\ (pc = "discover" \/ discLog # <<>>) => Spawned = Images
          /\ pc = "discover" => finished = <<>> /\ attemptOrder = <<>>
          /\ (pc \in {"while", "for"} \/ finished # <<>> \/ attemptOrder # <<>>)
                 => /\ Spawned = Images
                    /\ { discLog[k][1] : k \in 1..Len(discLog) } = Images)
    /\ [][ ( \/ discLog' # discLog
             \/ pc = "discover" /\ \E p \in Slots : Len(outPipe'[p]) < Len(outPipe[p]) )
           => (pc = "discover" /\ Spawned = Images) ]_vars
    /\ [][ (attemptOrder' # attemptOrder \/ finished' # finished)
           => (/\ pc \in {"while", "for"}
               /\ Len(discLog) = Len(image_set)
               /\ \A p \in Images : taskLogged[p] \/ warned[p]) ]_vars

\* Discovery is still at the first process, which is running, while the
\* second has exited and is not finalized.
C22_Witness ==
    /\ pc = "discover" /\ d = 1 /\ Len(procs) = 2
    /\ st[1] = "running" /\ st[2] = "exited" /\ finished = <<>>

\* The name build_images goes by: the argument when given, else the stored one.
C23_Name == IF arg_image_set # NoSet THEN arg_image_set ELSE self_image_set

\* The images of the named image set that the include filter, or with no
\* include filter the exclude filter, lets through.
C23_Expected ==
    LET l == conf[C23_Name]
    IN IF do_image # {} THEN Only(l, do_image)
       ELSE Only(l, Range(l) \ exclude_image)

\* C23: with neither the argument nor self.image_set set, build_images raises
\* RebuilderError and spawns nothing.  Otherwise the image set it hands to
\* _build_images is the image set of the one name it goes by, the argument
\* before the stored name, filtered by include and exclude, whatever do_set
\* is: only images of it are spawned, each once, and all of them by the time
\* the run is over.  (A name the configuration does not have raises as well,
\* with nothing spawned.)
C23_BuildsNamedSet ==
    pc # "idle" =>
        IF arg_image_set = NoSet /\ self_image_set = NoSet
        THEN /\ pc = "raised" /\ raised = "image_set"
             /\ Spawned = {} /\ image_set = <<>>
        ELSE IF conf[C23_Name] = None
        THEN /\ pc = "raised" /\ raised = "config"
             /\ Spawned = {} /\ image_set = <<>>
        ELSE /\ image_set = C23_Expected
             /\ Spawned \subseteq 1..Len(C23_Expected)
             /\ \A i \in Spawned : spawnCount[i] = 1
             /\ (pc = "done" \/ InWaitPhase) => Spawned = 1..Len(C23_Expected)
             /\ raised \notin {"image_set", "config"}

\* Argument L1 and stored name L2, do_set given, B excluded: the run that
\* built A alone is over.
C23_Witness ==
    /\ pc = "done" /\ arg_image_set = "L1" /\ self_image_set = "L2"
    /\ do_set # <<>> /\ exclude_image = {"B"} /\ do_image = {}
    /\ image_set = <<"A">> /\ finished = <<1>>

====
